---- MODULE Spec2Model ----
(***************************************************************************)
(* Off-chain coordination of the compute marketplace:                      *)
(*   - the scheduler (src/offchain/scheduler.py): main, process_job,       *)
(*     send_tx;                                                            *)
(*   - the provider client (src/offchain/provider_client.py): main,        *)
(*     run_workload, send_tx.                                              *)
(* The ledger (chain height, JobCreated logs, escrow reads, transaction    *)
(* outcomes, recommendation lists) is the environment: every read may fail *)
(* and every submission may end in any of SendTxOutcomes.                  *)
(***************************************************************************)
EXTENDS Integers, Sequences, FiniteSets, TLC

\* ---------------------------------------------------------------- bounds
MaxHeight == 3      \* highest block number the chain reaches
MaxJobs == 2        \* JobCreated events emitted over the whole run
MaxPerBlock == 2    \* JobCreated events in one block
MaxStart == 1       \* largest configured START_BLOCK
RandDenom == 2      \* random.random() draws r / RandDenom, r in 0..RandDenom-1

VARIABLES
    blocks,             \* the chain: blocks[b + 1] = job ids of the JobCreated logs of block b
    START_BLOCK,        \* scheduler.py:14
    AUDIT_PROBABILITY,  \* scheduler.py:15, in units of 1 / RandDenom
    escrow,             \* scheduler.py:36, TRUE iff an escrow contract is bound (not None)
    pc,                 \* scheduler position: "start", "poll", "scan", "crashed"
    last_block,         \* main's cursor (scheduler.py:91)
    current,            \* chain height read by the running iteration (scheduler.py:94)
    batch,              \* ev.get_all_entries() of the running iteration
    pos,                \* number of entries of batch already handed to process_job
    iter,               \* the latest iteration: how it went, with which cursor
    procLog,            \* history: every event handed to process_job, in order
    callLog,            \* ledger operations of the latest process_job call, in order
    cursor0,            \* history: the cursor's first value (-1 before startup)
    scanned,            \* history: blocks covered by a completed scan
    ppc,                \* provider position: "start", "poll", "work", "crashed"
    jobs,               \* provider main's list of recommended job ids (provider_client.py:60)
    jpos,               \* number of entries of jobs the for loop has finished
    provIter,           \* how the provider's latest iteration went
    provLog,            \* workload runs and completeJob calls of the provider's latest iteration
    START_BLOCK_ENV,    \* os.getenv("START_BLOCK"): -1 when the variable is not set
    proc,               \* the process that runs and owns the account: "scheduler" or "provider"
    ledger              \* the account on the ledger: transaction count, mempool, transactions

schedVars == <<START_BLOCK, AUDIT_PROBABILITY, escrow, pc, last_block, current,
               batch, pos, iter, procLog, callLog, cursor0, scanned>>

provVars == <<ppc, jobs, jpos, provIter, provLog>>

txVars == <<START_BLOCK_ENV, proc, ledger>>

\* ------------------------------------------------------------- the chain
Height == Len(blocks) - 1

RECURSIVE Flatten(_)
Flatten(ss) == IF ss = <<>> THEN <<>> ELSE Head(ss) \o Flatten(Tail(ss))

\* Number of JobCreated events emitted so far; job ids are 1, 2, 3, ...
JobCount == Len(Flatten(blocks))

\* k consecutive fresh job ids, starting after n
FreshIds(n, k) == [i \in 1..k |-> n + i]

\* A new block is mined, holding k new JobCreated events.
ChainGrow ==
    /\ Height < MaxHeight
    /\ \E k \in 0..MaxPerBlock :
          /\ JobCount + k <= MaxJobs
          /\ blocks' = Append(blocks, FreshIds(JobCount, k))
    /\ UNCHANGED schedVars
    /\ UNCHANGED provVars
    /\ UNCHANGED txVars

\* The JobCreated logs of one block, as get_all_entries returns them.
BlockEntries(b) ==
    [i \in 1..Len(blocks[b + 1]) |-> [jobId |-> blocks[b + 1][i], blockNumber |-> b]]

\* create_filter(fromBlock, toBlock).get_all_entries(): the logs of the blocks
\* fromBlock..toBlock, both inclusive, in block order then log order.
RECURSIVE GetAllEntries(_, _)
GetAllEntries(fromBlock, toBlock) ==
    IF fromBlock > toBlock THEN <<>>
    ELSE BlockEntries(fromBlock) \o GetAllEntries(fromBlock + 1, toBlock)

\* ------------------------------------------------------------- send_tx
\* How one send_tx call ends:
\*   "ok"       receipt.status = 1, the receipt is returned
\*   "unsent"   raised before the broadcast (assert on acct, nonce or chain id read)
\*   "rejected" send_raw_transaction raised
\*   "timeout"  wait_for_transaction_receipt raised
\*   "reverted" receipt.status /= 1, RuntimeError raised
SendTxOutcomes == {"ok", "unsent", "rejected", "timeout", "reverted"}

\* Mutant: the receipt's status is not looked at.
SendTxResult_NoStatusCheck(outcome) ==
    IF outcome \in {"ok", "reverted"} THEN "ok" ELSE "raised"

\* What the caller of send_tx sees: the receipt ("ok"), or an exception.
SendTxResult(outcome) == IF outcome = "ok" THEN "ok" ELSE "raised"

\* One entry of a log of ledger operations.
TxEntry(op, job, arg, res) == [op |-> op, job |-> job, arg |-> arg, res |-> res]

\* ---------------------------------------------------------- process_job
\* Mutant: the comparison is <= instead of <.
ShouldAudit_Inclusive(r) == r <= AUDIT_PROBABILITY

\* random.random() < AUDIT_PROBABILITY, with r the draw
ShouldAudit(r) == r < AUDIT_PROBABILITY

\* The audit step: one setJobAudit(job_id, True) call of send_tx when drawn; its
\* failure is caught and printed.
AuditStep(job_id, r, auditRes) ==
    IF ShouldAudit(r)
    THEN <<TxEntry("setJobAudit", job_id, "true", SendTxResult(auditRes))>>
    ELSE <<>>

\* Mutant: the read is made whether or not an escrow is bound.
FundingStep_Always(job_id, fundRes) == <<TxEntry("isFunded", job_id, "", fundRes)>>

\* The isFunded(job_id) read, made only when an escrow is bound. fundRes is
\* "true", "false" or "error" (the call raised).
FundingStep(job_id, fundRes) ==
    IF escrow THEN <<TxEntry("isFunded", job_id, "", fundRes)>> ELSE <<>>

\* Mutant: the early return is missing.
SkipsAssignment_Never(fundRes) == FALSE

\* process_job returns before the assignment only from inside the try, when the
\* read returned false; the except branch prints and falls through.
SkipsAssignment(fundRes) == escrow /\ fundRes = "false"

\* The assignment step: one assignJobToOptimalNode(job_id) call of send_tx; its
\* failure is caught and printed.
AssignStep(job_id, fundRes, assignRes) ==
    IF SkipsAssignment(fundRes) THEN <<>>
    ELSE <<TxEntry("assignJobToOptimalNode", job_id, "", SendTxResult(assignRes))>>

\* Mutant: a failed setJobAudit submission ends process_job.
process_job_AuditGates(job_id, r, auditRes, fundRes, assignRes) ==
    IF ShouldAudit(r) /\ SendTxResult(auditRes) = "raised"
    THEN AuditStep(job_id, r, auditRes)
    ELSE AuditStep(job_id, r, auditRes) \o FundingStep(job_id, fundRes)
             \o AssignStep(job_id, fundRes, assignRes)

\* The ledger operations of one process_job(job_id) call, in order. No exception
\* leaves process_job: every send_tx and the escrow read sit in a try/except.
process_job(job_id, r, auditRes, fundRes, assignRes) ==
    AuditStep(job_id, r, auditRes) \o FundingStep(job_id, fundRes)
        \o AssignStep(job_id, fundRes, assignRes)

\* ------------------------------------------------------- scheduler main
IterRec(kind, cursor) == [kind |-> kind, cursor |-> cursor]

\* last_block = START_BLOCK or w3.eth.block_number
StartCursor(height) == IF START_BLOCK # 0 THEN START_BLOCK ELSE height

\* Mutant: the cursor is set to the scanned height itself.
NextCursor_Same(cur) == cur

\* Mutant: the cursor jumps over one block.
NextCursor_Skip(cur) == cur + 2

\* last_block = current + 1
NextCursor(cur) == cur + 1

\* Startup: the cursor takes its first value and the loop is entered.
SchedStart ==
    /\ pc = "start"
    /\ last_block' = StartCursor(Height)
    /\ cursor0' = StartCursor(Height)
    /\ pc' = "poll"
    /\ UNCHANGED <<blocks, START_BLOCK, AUDIT_PROBABILITY, escrow, current, batch,
                   pos, iter, procLog, callLog, scanned>>
    /\ UNCHANGED provVars
    /\ UNCHANGED txVars

\* Startup: a ledger read made before the loop (chain_id for the banner,
\* block_number for the cursor) raises; nothing catches it.
SchedStartFail ==
    /\ pc = "start"
    /\ pc' = "crashed"
    /\ UNCHANGED <<blocks, START_BLOCK, AUDIT_PROBABILITY, escrow, last_block, current,
                   batch, pos, iter, procLog, callLog, cursor0, scanned>>
    /\ UNCHANGED provVars
    /\ UNCHANGED txVars

\* An iteration whose w3.eth.block_number read raises: "Loop error", sleep.
SchedHeightFail ==
    /\ pc = "poll"
    /\ iter' = IterRec("height_error", last_block)
    /\ UNCHANGED <<blocks, START_BLOCK, AUDIT_PROBABILITY, escrow, pc, last_block,
                   current, batch, pos, procLog, callLog, cursor0, scanned>>
    /\ UNCHANGED provVars
    /\ UNCHANGED txVars

\* An iteration that reads a height below the cursor: nothing to do, sleep.
SchedIdle ==
    /\ pc = "poll"
    /\ ~(Height >= last_block)
    /\ current' = Height
    /\ iter' = IterRec("idle", last_block)
    /\ UNCHANGED <<blocks, START_BLOCK, AUDIT_PROBABILITY, escrow, pc, last_block,
                   batch, pos, procLog, callLog, cursor0, scanned>>
    /\ UNCHANGED provVars
    /\ UNCHANGED txVars

\* Mutant: the cursor assignment sits in a finally clause and runs on a fetch error.
SchedFetchFail_Advances ==
    /\ pc = "poll"
    /\ Height >= last_block
    /\ current' = Height
    /\ last_block' = Height + 1
    /\ iter' = IterRec("fetch_error", last_block)
    /\ UNCHANGED <<blocks, START_BLOCK, AUDIT_PROBABILITY, escrow, pc,
                   batch, pos, procLog, callLog, cursor0, scanned>>
    /\ UNCHANGED provVars
    /\ UNCHANGED txVars

\* An iteration whose create_filter / get_all_entries raises: "Loop error", sleep.
SchedFetchFail ==
    /\ pc = "poll"
    /\ Height >= last_block
    /\ current' = Height
    /\ iter' = IterRec("fetch_error", last_block)
    /\ UNCHANGED <<blocks, START_BLOCK, AUDIT_PROBABILITY, escrow, pc, last_block,
                   batch, pos, procLog, callLog, cursor0, scanned>>
    /\ UNCHANGED provVars
    /\ UNCHANGED txVars

\* Mutant: the "if current >= last_block" guard is missing.
SchedFetch_NoGuard ==
    /\ pc = "poll"
    /\ current' = Height
    /\ batch' = GetAllEntries(last_block, Height)
    /\ pos' = 0
    /\ iter' = IterRec("scan", last_block)
    /\ pc' = "scan"
    /\ UNCHANGED <<blocks, START_BLOCK, AUDIT_PROBABILITY, escrow, last_block,
                   procLog, callLog, cursor0, scanned>>
    /\ UNCHANGED provVars
    /\ UNCHANGED txVars

\* An iteration that fetches the JobCreated logs of [last_block, current].
SchedFetch ==
    /\ pc = "poll"
    /\ Height >= last_block
    /\ current' = Height
    /\ batch' = GetAllEntries(last_block, Height)
    /\ pos' = 0
    /\ iter' = IterRec("scan", last_block)
    /\ pc' = "scan"
    /\ UNCHANGED <<blocks, START_BLOCK, AUDIT_PROBABILITY, escrow, last_block,
                   procLog, callLog, cursor0, scanned>>
    /\ UNCHANGED provVars
    /\ UNCHANGED txVars

\* Mutant: process_job lets a failed submission escape, which ends the for loop.
ProcessJob_Propagates ==
    /\ pc = "scan"
    /\ pos < Len(batch)
    /\ \E r \in 0..(RandDenom - 1), auditRes \in SendTxOutcomes,
          fundRes \in {"true", "false", "error"}, assignRes \in SendTxOutcomes :
          /\ callLog' = process_job(batch[pos + 1].jobId, r, auditRes, fundRes, assignRes)
          /\ pc' = IF \E i \in DOMAIN callLog' : callLog'[i].res = "raised"
                   THEN "poll" ELSE "scan"
    /\ procLog' = Append(procLog, batch[pos + 1])
    /\ pos' = pos + 1
    /\ UNCHANGED <<blocks, START_BLOCK, AUDIT_PROBABILITY, escrow, last_block,
                   current, batch, iter, cursor0, scanned>>
    /\ UNCHANGED provVars
    /\ UNCHANGED txVars

\* The body of the for loop: the next entry of the batch goes to process_job.
ProcessJob ==
    /\ pc = "scan"
    /\ pos < Len(batch)
    /\ \E r \in 0..(RandDenom - 1), auditRes \in SendTxOutcomes,
          fundRes \in {"true", "false", "error"}, assignRes \in SendTxOutcomes :
          callLog' = process_job(batch[pos + 1].jobId, r, auditRes, fundRes, assignRes)
    /\ procLog' = Append(procLog, batch[pos + 1])
    /\ pos' = pos + 1
    /\ UNCHANGED <<blocks, START_BLOCK, AUDIT_PROBABILITY, escrow, pc, last_block,
                   current, batch, iter, cursor0, scanned>>
    /\ UNCHANGED provVars
    /\ UNCHANGED txVars

\* Mutant: the height is read again after the for loop.
SchedAdvance_LatestHeight ==
    /\ pc = "scan"
    /\ pos = Len(batch)
    /\ last_block' = NextCursor(Height)
    /\ scanned' = scanned \cup (iter.cursor..current)
    /\ iter' = IterRec("done", last_block)
    /\ pc' = "poll"
    /\ UNCHANGED <<blocks, START_BLOCK, AUDIT_PROBABILITY, escrow, current, batch,
                   pos, procLog, callLog, cursor0>>
    /\ UNCHANGED provVars
    /\ UNCHANGED txVars

\* Mutant: the cursor stays when the last job of the batch was found unfunded, so
\* that the range is scanned again.
SchedAdvance_RetriesUnfunded ==
    /\ pc = "scan"
    /\ pos = Len(batch)
    /\ last_block' = IF \E i \in DOMAIN callLog :
                            callLog[i].op = "isFunded" /\ callLog[i].res = "false"
                     THEN last_block
                     ELSE NextCursor(current)
    /\ scanned' = scanned \cup (iter.cursor..current)
    /\ iter' = IterRec("done", last_block)
    /\ pc' = "poll"
    /\ UNCHANGED <<blocks, START_BLOCK, AUDIT_PROBABILITY, escrow, current, batch,
                   pos, procLog, callLog, cursor0>>
    /\ UNCHANGED provVars
    /\ UNCHANGED txVars

\* The for loop is over: the cursor moves past the scanned range, sleep.
SchedAdvance ==
    /\ pc = "scan"
    /\ pos = Len(batch)
    /\ last_block' = NextCursor(current)
    /\ scanned' = scanned \cup (iter.cursor..current)
    /\ iter' = IterRec("done", last_block)
    /\ pc' = "poll"
    /\ UNCHANGED <<blocks, START_BLOCK, AUDIT_PROBABILITY, escrow, current, batch,
                   pos, procLog, callLog, cursor0>>
    /\ UNCHANGED provVars
    /\ UNCHANGED txVars

\* ------------------------------------------------------ provider client
MaxRec == 3         \* longest list getRecommendedJobs returns
MaxProvJob == 2     \* job ids 1..MaxProvJob may be recommended to the node
MaxTime == 1        \* int(time.time()) reads 0..MaxTime

\* w3.keccak(payload): the digest as a term over its preimage (no collisions).
Keccak(payload) == <<"keccak", payload>>

\* run_workload(job_id) at clock reading ts: the pair (cid, result_hash).
run_workload(job_id, ts) ==
    LET payload == <<"jobId", job_id, "timestamp", ts>>
        result_hash == Keccak(payload)
    IN  [cid |-> <<"cid://job-", job_id, result_hash>>, result_hash |-> result_hash]

\* Log entry of one run_workload call; res is "ok" or "raised".
WorkloadEntry(job_id, w, res) ==
    [op |-> "run_workload", job |-> job_id, hash |-> w.result_hash, cid |-> w.cid,
     res |-> res]

\* Mutant: the call carries the first job id of the list.
CompleteJobEntry_FirstJob(job_id, result_hash, cid, outcome) ==
    [op |-> "completeJob", job |-> jobs[1], hash |-> result_hash, cid |-> cid,
     res |-> SendTxResult(outcome)]

\* Log entry of send_tx(job_manager.functions.completeJob(int(job_id), result_hash, cid)).
CompleteJobEntry(job_id, result_hash, cid, outcome) ==
    [op |-> "completeJob", job |-> job_id, hash |-> result_hash, cid |-> cid,
     res |-> SendTxResult(outcome)]

NoResult == [cid |-> <<>>, result_hash |-> <<>>]

\* All lists of at most n job ids.
RecLists(n) == UNION {[1..k -> 1..MaxProvJob] : k \in 0..n}

provFrame == <<blocks, schedVars, txVars>>

\* Startup banner printed, the loop is entered.
ProvStart ==
    /\ ppc = "start"
    /\ ppc' = "poll"
    /\ UNCHANGED <<jobs, jpos, provIter, provLog>>
    /\ UNCHANGED provFrame

\* Startup: the chain_id read of the banner raises; nothing catches it.
ProvStartFail ==
    /\ ppc = "start"
    /\ ppc' = "crashed"
    /\ UNCHANGED <<jobs, jpos, provIter, provLog>>
    /\ UNCHANGED provFrame

\* An iteration whose getRecommendedJobs read raises: "Loop error", sleep.
ProvPollFail ==
    /\ ppc = "poll"
    /\ provIter' = "read_error"
    /\ provLog' = <<>>
    /\ UNCHANGED <<ppc, jobs, jpos>>
    /\ UNCHANGED provFrame

\* An iteration that reads the recommendation list and enters the for loop.
ProvPoll ==
    /\ ppc = "poll"
    /\ jobs' \in RecLists(MaxRec)
    /\ jpos' = 0
    /\ provIter' = "work"
    /\ provLog' = <<>>
    /\ ppc' = "work"
    /\ UNCHANGED provFrame

\* for loop body, run_workload raises: the exception leaves the for loop and is
\* caught by the try around it ("Loop error"), sleep.
ProvJobWorkloadFail ==
    /\ ppc = "work"
    /\ jpos < Len(jobs)
    /\ provLog' = Append(provLog, WorkloadEntry(jobs[jpos + 1], NoResult, "raised"))
    /\ provIter' = "aborted"
    /\ ppc' = "poll"
    /\ UNCHANGED <<jobs, jpos>>
    /\ UNCHANGED provFrame

\* Mutant: no try around the for loop, the exception of send_tx ends the process.
ProvJobSubmitFail_Fatal ==
    /\ ppc = "work"
    /\ jpos < Len(jobs)
    /\ \E ts \in 0..MaxTime, outcome \in SendTxOutcomes \ {"ok"} :
          LET w == run_workload(jobs[jpos + 1], ts)
          IN  provLog' = provLog \o
                  <<WorkloadEntry(jobs[jpos + 1], w, "ok"),
                    CompleteJobEntry(jobs[jpos + 1], w.result_hash, w.cid, outcome)>>
    /\ provIter' = "aborted"
    /\ ppc' = "crashed"
    /\ UNCHANGED <<jobs, jpos>>
    /\ UNCHANGED provFrame

\* for loop body, send_tx raises: the exception leaves the for loop and is caught
\* by the try around it ("Loop error"), sleep.
ProvJobSubmitFail ==
    /\ ppc = "work"
    /\ jpos < Len(jobs)
    /\ \E ts \in 0..MaxTime, outcome \in SendTxOutcomes \ {"ok"} :
          LET w == run_workload(jobs[jpos + 1], ts)
          IN  provLog' = provLog \o
                  <<WorkloadEntry(jobs[jpos + 1], w, "ok"),
                    CompleteJobEntry(jobs[jpos + 1], w.result_hash, w.cid, outcome)>>
    /\ provIter' = "aborted"
    /\ ppc' = "poll"
    /\ UNCHANGED <<jobs, jpos>>
    /\ UNCHANGED provFrame

\* for loop body, the completion is included with success: on to the next job.
ProvJobOk ==
    /\ ppc = "work"
    /\ jpos < Len(jobs)
    /\ \E ts \in 0..MaxTime :
          LET w == run_workload(jobs[jpos + 1], ts)
          IN  provLog' = provLog \o
                  <<WorkloadEntry(jobs[jpos + 1], w, "ok"),
                    CompleteJobEntry(jobs[jpos + 1], w.result_hash, w.cid, "ok")>>
    /\ jpos' = jpos + 1
    /\ UNCHANGED <<ppc, jobs, provIter>>
    /\ UNCHANGED provFrame

\* The for loop is over, sleep.
ProvDone ==
    /\ ppc = "work"
    /\ jpos = Len(jobs)
    /\ provIter' = "done"
    /\ ppc' = "poll"
    /\ UNCHANGED <<jobs, jpos, provLog>>
    /\ UNCHANGED provFrame

\* ------------------------------------------ send_tx against the ledger
MaxCalls == 2       \* send_tx calls after which no new process_job / completeJob starts

\* The account before its first transaction.
EmptyLedger == [count |-> 0, calls |-> <<>>, txs |-> <<>>]

\* A transaction handed to send_raw_transaction by call number call. state is
\* "rejected" (the broadcast raised), "pending" (in the mempool), "success" or
\* "reverted" (included, status 1 or 0), "dropped" (left the mempool unmined).
Tx(call, fn, nonce, state) == [call |-> call, fn |-> fn, nonce |-> nonce, state |-> state]

\* The account's transaction with sequence number nonce is included: the count
\* moves on and the pending transactions with that nonce can no longer be mined.
Include(txs, nonce) ==
    [i \in DOMAIN txs |->
        IF txs[i].state = "pending" /\ txs[i].nonce = nonce
        THEN [txs[i] EXCEPT !.state = "dropped"] ELSE txs[i]]

\* What becomes of the transaction of a send_tx call by the time the call ends.
TxStateAtReturn(outcome) ==
    CASE outcome = "ok" -> "success"
      [] outcome = "reverted" -> "reverted"
      [] outcome = "timeout" -> "pending"
      [] OTHER -> "rejected"

\* Mutant: a rejected broadcast is tried a second time inside the same call.
send_tx_RetryRejected(L, fn, outcome) ==
    LET call == Len(L.calls) + 1
        nonce == L.count
        done == Append(L.calls, [fn |-> fn, nonce |-> nonce, outcome |-> outcome,
                                 res |-> SendTxResult(outcome)])
    IN  IF outcome = "unsent" THEN [L EXCEPT !.calls = done]
        ELSE IF outcome = "rejected"
        THEN [L EXCEPT !.calls = done,
                       !.txs = L.txs \o <<Tx(call, fn, nonce, "rejected"),
                                          Tx(call, fn, nonce, "rejected")>>]
        ELSE IF outcome = "timeout"
        THEN [L EXCEPT !.calls = done,
                       !.txs = Append(L.txs, Tx(call, fn, nonce, "pending"))]
        ELSE [count |-> L.count + 1, calls |-> done,
              txs |-> Append(Include(L.txs, nonce),
                             Tx(call, fn, nonce, TxStateAtReturn(outcome)))]

\* send_tx(fn) on the account L: the nonce is get_transaction_count at the latest
\* block (the included transactions only), one transaction is built, signed and
\* broadcast, and the call waits for its receipt. The call is recorded with its
\* nonce and with what the caller gets (SendTxResult).
send_tx(L, fn, outcome) ==
    LET call == Len(L.calls) + 1
        nonce == L.count
        done == Append(L.calls, [fn |-> fn, nonce |-> nonce, outcome |-> outcome,
                                 res |-> SendTxResult(outcome)])
    IN  IF outcome = "unsent" THEN [L EXCEPT !.calls = done]
        ELSE IF outcome \in {"rejected", "timeout"}
        THEN [L EXCEPT !.calls = done,
                       !.txs = Append(L.txs, Tx(call, fn, nonce, TxStateAtReturn(outcome)))]
        ELSE [count |-> L.count + 1, calls |-> done,
              txs |-> Append(Include(L.txs, nonce),
                             Tx(call, fn, nonce, TxStateAtReturn(outcome)))]

Fn(op, job) == [op |-> op, job |-> job]

txFrame == <<blocks, START_BLOCK, AUDIT_PROBABILITY, escrow, pc, last_block, current,
             batch, pos, iter, procLog, cursor0, scanned, provVars, START_BLOCK_ENV,
             proc>>

\* The scheduler calls process_job(job_id): its send_tx calls reach the ledger in
\* order, the setJobAudit one when the audit is drawn, the assignJobToOptimalNode
\* one unless process_job returned before it.
TxProcessJob ==
    /\ proc = "scheduler"
    /\ Len(ledger.calls) < MaxCalls
    /\ \E job_id \in 1..MaxJobs, r \in 0..(RandDenom - 1), auditRes \in SendTxOutcomes,
          fundRes \in {"true", "false", "error"}, assignRes \in SendTxOutcomes :
          LET L1 == IF AuditStep(job_id, r, auditRes) # <<>>
                    THEN send_tx(ledger, Fn("setJobAudit", job_id), auditRes)
                    ELSE ledger
              L2 == IF AssignStep(job_id, fundRes, assignRes) # <<>>
                    THEN send_tx(L1, Fn("assignJobToOptimalNode", job_id), assignRes)
                    ELSE L1
          IN  /\ callLog' = process_job(job_id, r, auditRes, fundRes, assignRes)
              /\ ledger' = L2
    /\ UNCHANGED txFrame

\* The provider calls send_tx(completeJob(job_id, result_hash, cid)).
TxCompleteJob ==
    /\ proc = "provider"
    /\ Len(ledger.calls) < MaxCalls
    /\ \E job_id \in 1..MaxProvJob, outcome \in SendTxOutcomes :
          ledger' = send_tx(ledger, Fn("completeJob", job_id), outcome)
    /\ UNCHANGED callLog
    /\ UNCHANGED txFrame

\* The ledger includes a transaction that was left pending by a call that timed
\* out; its execution succeeds or reverts.
MineLate ==
    /\ \E i \in DOMAIN ledger.txs, state \in {"success", "reverted"} :
          /\ ledger.txs[i].state = "pending"
          /\ ledger.txs[i].nonce = ledger.count
          /\ ledger' = [ledger EXCEPT
                !.count = ledger.count + 1,
                !.txs = [Include(ledger.txs, ledger.count) EXCEPT ![i].state = state]]
    /\ UNCHANGED callLog
    /\ UNCHANGED txFrame

\* The mempool evicts a pending transaction.
DropPending ==
    /\ \E i \in DOMAIN ledger.txs :
          /\ ledger.txs[i].state = "pending"
          /\ ledger' = [ledger EXCEPT !.txs[i].state = "dropped"]
    /\ UNCHANGED callLog
    /\ UNCHANGED txFrame

\* ------------------------------------------------------- specifications
vars == <<blocks, schedVars, provVars, txVars>>

SchedInit ==
    /\ blocks = << <<>> >>
    /\ pc = "start"
    /\ last_block = 0
    /\ current = 0
    /\ batch = <<>>
    /\ pos = 0
    /\ iter = IterRec("none", 0)
    /\ procLog = <<>>
    /\ callLog = <<>>
    /\ cursor0 = -1
    /\ scanned = {}

ProvInit ==
    /\ ppc = "start"
    /\ jobs = <<>>
    /\ jpos = 0
    /\ provIter = "none"
    /\ provLog = <<>>

\* START_BLOCK = int(os.getenv("START_BLOCK", "0"))
ParseStartBlock(env) == IF env = -1 THEN 0 ELSE env

\* The scheduler process under every configuration, on a growing chain.
\* START_BLOCK set to 0 parses to the same START_BLOCK as START_BLOCK unset and
\* main reads START_BLOCK only; the two are kept apart in StartInit.
Init ==
    /\ START_BLOCK_ENV \in {-1} \cup 1..MaxStart
    /\ START_BLOCK = ParseStartBlock(START_BLOCK_ENV)
    /\ proc = "scheduler"
    /\ ledger = EmptyLedger
    /\ AUDIT_PROBABILITY \in 0..RandDenom
    /\ escrow \in BOOLEAN
    /\ SchedInit
    /\ ProvInit

Next ==
    \/ ChainGrow
    \/ SchedStart
    \/ SchedStartFail
    \/ SchedHeightFail
    \/ SchedIdle
    \/ SchedFetchFail
    \/ SchedFetch
    \/ ProcessJob
    \/ SchedAdvance

Spec == Init /\ [][Next]_vars

\* The scheduler up to the entry of its loop, START_BLOCK unset, 0 or positive.
StartInit ==
    /\ START_BLOCK_ENV \in -1..MaxStart
    /\ START_BLOCK = ParseStartBlock(START_BLOCK_ENV)
    /\ proc = "scheduler"
    /\ ledger = EmptyLedger
    /\ AUDIT_PROBABILITY \in 0..RandDenom
    /\ escrow \in BOOLEAN
    /\ SchedInit
    /\ ProvInit

StartNext ==
    \/ ChainGrow
    \/ SchedStart
    \/ SchedStartFail

StartSpec == StartInit /\ [][StartNext]_vars

\* The provider process; the scheduler's variables stay at their first values.
ProviderInit ==
    /\ START_BLOCK_ENV = -1
    /\ START_BLOCK = ParseStartBlock(START_BLOCK_ENV)
    /\ proc = "provider"
    /\ ledger = EmptyLedger
    /\ AUDIT_PROBABILITY = 0
    /\ escrow = FALSE
    /\ SchedInit
    /\ ProvInit

ProviderNext ==
    \/ ProvStart
    \/ ProvStartFail
    \/ ProvPollFail
    \/ ProvPoll
    \/ ProvJobWorkloadFail
    \/ ProvJobSubmitFail
    \/ ProvJobOk
    \/ ProvDone

ProviderSpec == ProviderInit /\ [][ProviderNext]_vars

\* Either process, running on: after time.sleep the next iteration starts, and
\* every blocking call of an iteration returns or raises.
\* The scheduler runs under the configuration that reaches every branch of
\* process_job: an escrow bound, the audit drawn for some jobs and not for others.
LoopInit ==
    \/ /\ START_BLOCK_ENV = -1
       /\ START_BLOCK = ParseStartBlock(START_BLOCK_ENV)
       /\ AUDIT_PROBABILITY = 1
       /\ escrow = TRUE
       /\ proc = "scheduler"
       /\ ledger = EmptyLedger
       /\ SchedInit
       /\ ProvInit
    \/ ProviderInit

SchedLoopStep ==
    SchedHeightFail \/ SchedIdle \/ SchedFetchFail \/ SchedFetch \/ ProcessJob
        \/ SchedAdvance

ProvLoopStep ==
    ProvPollFail \/ ProvPoll \/ ProvJobWorkloadFail \/ ProvJobSubmitFail \/ ProvJobOk
        \/ ProvDone

LoopNext ==
    \/ proc = "scheduler" /\ ChainGrow
    \/ proc = "scheduler" /\ SchedStart
    \/ proc = "scheduler" /\ SchedStartFail
    \/ proc = "scheduler" /\ SchedHeightFail
    \/ proc = "scheduler" /\ SchedIdle
    \/ proc = "scheduler" /\ SchedFetchFail
    \/ proc = "scheduler" /\ SchedFetch
    \/ proc = "scheduler" /\ ProcessJob
    \/ proc = "scheduler" /\ SchedAdvance
    \/ proc = "provider" /\ ProvStart
    \/ proc = "provider" /\ ProvStartFail
    \/ proc = "provider" /\ ProvPollFail
    \/ proc = "provider" /\ ProvPoll
    \/ proc = "provider" /\ ProvJobWorkloadFail
    \/ proc = "provider" /\ ProvJobSubmitFail
    \/ proc = "provider" /\ ProvJobOk
    \/ proc = "provider" /\ ProvDone

LoopSpec ==
    /\ LoopInit
    /\ [][LoopNext]_vars
    /\ WF_vars(proc = "scheduler" /\ SchedLoopStep)
    /\ WF_vars(proc = "provider" /\ ProvLoopStep)

\* One process, scheduler or provider, submitting transactions from its account.
\* The scheduler's configuration is the one under which process_job makes every
\* combination of its two submissions: an escrow bound (the assignment is skipped
\* for some jobs) and the audit drawn for some jobs and not for others.
TxInit ==
    /\ START_BLOCK_ENV = -1
    /\ START_BLOCK = ParseStartBlock(START_BLOCK_ENV)
    /\ AUDIT_PROBABILITY = 1
    /\ escrow = TRUE
    /\ proc \in {"scheduler", "provider"}
    /\ ledger = EmptyLedger
    /\ SchedInit
    /\ ProvInit

TxNext ==
    \/ TxProcessJob
    \/ TxCompleteJob
    \/ MineLate
    \/ DropPending

TxSpec == TxInit /\ [][TxNext]_vars

\* ================================================================ claims
\* Positions of the entries of a log that are calls of op.
Calls(log, op) == {i \in DOMAIN log : log[i].op = op}

\* Number of times the JobCreated event of job id j was handed to process_job.
Handed(j) == Cardinality({i \in DOMAIN procLog : procLog[i].jobId = j})

\* The last n entries of a sequence.
LastN(s, n) == SubSeq(s, Len(s) - n + 1, Len(s))

\* The job of the latest process_job call.
LastJob == procLog[Len(procLog)].jobId

\* C1: every JobCreated event is handed to process_job at most once; an event of a
\* block at or above the first cursor that the cursor has passed was handed exactly
\* once; and events are handed over in non-decreasing block order.
C1_ExactlyOnceInBlockOrder ==
    /\ \A b \in 0..Height : \A i \in DOMAIN blocks[b + 1] :
          /\ Handed(blocks[b + 1][i]) <= 1
          /\ (cursor0 >= 0 /\ cursor0 <= b /\ b < last_block)
                => Handed(blocks[b + 1][i]) = 1
    /\ \A i \in DOMAIN procLog : \A j \in DOMAIN procLog :
          i < j => procLog[i].blockNumber <= procLog[j].blockNumber

\* Every event of the chain was handed over, two of them from different blocks,
\* and the cursor has passed the whole chain.
C1_Witness ==
    /\ Len(procLog) >= 2
    /\ procLog[1].blockNumber < procLog[2].blockNumber
    /\ last_block > Height
    /\ JobCount = Len(procLog)

\* C2: an iteration that ends in a failed height read or a failed event fetch
\* leaves the cursor and the set of processed jobs as they were and goes back to
\* polling; the iteration that follows a failed one starts from the same cursor.
C2_FetchErrorKeepsCursor ==
    [][ /\ (pc = "poll" /\ iter'.kind \in {"height_error", "fetch_error"})
            => /\ last_block' = last_block
               /\ procLog' = procLog
               /\ pc' = "poll"
               /\ iter'.cursor = last_block
        /\ (pc = "poll" /\ iter.kind \in {"height_error", "fetch_error"})
            => iter'.cursor = iter.cursor ]_vars

\* A fetch failed over a range that holds unprocessed events.
C2_Witness ==
    /\ pc = "poll"
    /\ iter.kind = "fetch_error"
    /\ Height >= last_block
    /\ GetAllEntries(last_block, Height) # <<>>
    /\ procLog # <<>>

\* C3: the cursor never decreases, and every block from the first cursor up to
\* (excluding) the current cursor lies in a range whose scan completed.
C3_CursorMonotoneNoSkip ==
    /\ [](cursor0 >= 0 => \A b \in cursor0..(last_block - 1) : b \in scanned)
    /\ [][last_block' >= last_block]_vars

\* The cursor has advanced twice or more, over at least three blocks.
C3_Witness ==
    /\ cursor0 >= 0
    /\ last_block >= cursor0 + 3
    /\ iter.kind = "done"
    /\ iter.cursor > cursor0

\* C4: with an escrow bound, a process_job call whose isFunded read raised submits
\* no assignJobToOptimalNode transaction.
C4_FailClosedOnReadError ==
    (escrow /\ \E i \in Calls(callLog, "isFunded") : callLog[i].res = "error")
        => Calls(callLog, "assignJobToOptimalNode") = {}

\* C5: with an escrow bound, a process_job call whose isFunded read returned false
\* made exactly one funding read and submitted no assignJobToOptimalNode.
C5_UnfundedNotAssigned ==
    (escrow /\ \E i \in Calls(callLog, "isFunded") : callLog[i].res = "false")
        => /\ Cardinality(Calls(callLog, "isFunded")) = 1
           /\ \A i \in Calls(callLog, "isFunded") : callLog[i].job = LastJob
           /\ Calls(callLog, "assignJobToOptimalNode") = {}

\* process_job ran an audit and then found the job unfunded.
C5_Witness ==
    /\ escrow
    /\ \E i \in Calls(callLog, "isFunded") : callLog[i].res = "false"
    /\ Calls(callLog, "setJobAudit") # {}

\* C6: with no escrow bound, a process_job call never reads isFunded and calls
\* send_tx for assignJobToOptimalNode of its job, whatever the audit step did.
C6_NoEscrowAlwaysAssigns ==
    (~escrow /\ procLog # <<>>)
        => /\ Calls(callLog, "isFunded") = {}
           /\ Cardinality(Calls(callLog, "assignJobToOptimalNode")) = 1
           /\ \A i \in Calls(callLog, "assignJobToOptimalNode") : callLog[i].job = LastJob

\* No escrow, the audit submission failed, the assignment was still attempted.
C6_Witness ==
    /\ ~escrow
    /\ procLog # <<>>
    /\ \E i \in Calls(callLog, "setJobAudit") : callLog[i].res = "raised"
    /\ Calls(callLog, "assignJobToOptimalNode") # {}

\* C7: with audit probability 0 no process_job call submits setJobAudit; with
\* audit probability 1 every process_job call makes exactly one
\* setJobAudit(job_id, True) submission attempt, for its own job.
C7_AuditSampling ==
    /\ AUDIT_PROBABILITY = 0 => Calls(callLog, "setJobAudit") = {}
    /\ (AUDIT_PROBABILITY = RandDenom /\ procLog # <<>>)
          => /\ Cardinality(Calls(callLog, "setJobAudit")) = 1
             /\ \A i \in Calls(callLog, "setJobAudit") :
                   callLog[i].job = LastJob /\ callLog[i].arg = "true"

\* Probability 1: the second job of a run got its audit attempt.
C7_Witness ==
    /\ AUDIT_PROBABILITY = RandDenom
    /\ Len(procLog) = 2
    /\ Calls(callLog, "setJobAudit") # {}

\* C8: a failure inside process_job does not end the scan: while the scan runs the
\* entries handed over are the batch's first pos ones, the scan is left only by
\* the cursor advance, and by then the whole batch was handed over.
C8_FailureDoesNotStopScan ==
    /\ [](pc = "scan" =>
             /\ pos <= Len(batch)
             /\ Len(procLog) >= pos
             /\ LastN(procLog, pos) = SubSeq(batch, 1, pos))
    /\ [][(pc = "scan" /\ pc' # "scan") =>
             /\ pos = Len(batch)
             /\ LastN(procLog, Len(batch)) = batch
             /\ last_block' = current + 1]_vars

\* The audit and the assignment of the first job of a batch of two both failed,
\* and the scan stands at the second job.
C8_Witness ==
    /\ pc = "scan"
    /\ Len(batch) = 2
    /\ pos = 1
    /\ Cardinality({i \in DOMAIN callLog : callLog[i].res = "raised"}) = 2

\* C9: when a provider iteration is over, every job id of the list it read got a
\* completion attempt (its workload was run) in that iteration.
C9_EveryRecommendedJobAttempted ==
    (ppc = "poll" /\ provIter \in {"done", "aborted"})
        => Cardinality(Calls(provLog, "run_workload")) = Len(jobs)

\* C10: in a provider iteration, the k-th workload run is for the k-th job id of
\* the list; each workload run that returned (cid, hash) is followed at once by one
\* completeJob call with that job id, hash and cid; and there is no other
\* completeJob call.
C10_OneCompletionPerResult ==
    /\ \A i \in DOMAIN provLog :
          provLog[i].op = "run_workload" =>
             /\ Cardinality({k \in 1..i : provLog[k].op = "run_workload"}) <= Len(jobs)
             /\ provLog[i].job =
                   jobs[Cardinality({k \in 1..i : provLog[k].op = "run_workload"})]
             /\ provLog[i].res = "ok" =>
                   /\ i + 1 \in DOMAIN provLog
                   /\ provLog[i + 1].op = "completeJob"
                   /\ provLog[i + 1].job = provLog[i].job
                   /\ provLog[i + 1].hash = provLog[i].hash
                   /\ provLog[i + 1].cid = provLog[i].cid
    /\ \A i \in DOMAIN provLog :
          provLog[i].op = "completeJob" =>
             /\ i - 1 \in DOMAIN provLog
             /\ provLog[i - 1].op = "run_workload"
             /\ provLog[i - 1].res = "ok"

\* Two jobs were completed in one iteration.
C10_Witness ==
    /\ Cardinality(Calls(provLog, "completeJob")) = 2
    /\ provLog[2].res = "ok"
    /\ jobs[1] # jobs[2]

\* Positions of the transactions that send_tx call number c handed to the node.
TxsOfCall(c) == {i \in DOMAIN ledger.txs : ledger.txs[i].call = c}

\* A transaction the ledger holds: in the mempool or included in a block.
Held(i) == ledger.txs[i].state \in {"pending", "success", "reverted"}

\* C11: no two transactions of the account that the ledger holds (pending or
\* included) carry the same nonce: every send_tx call built its transaction with
\* a nonce no earlier transaction of the account occupies.
C11_FreshNonce ==
    \A i \in DOMAIN ledger.txs : \A j \in DOMAIN ledger.txs :
        (i < j /\ Held(i) /\ Held(j)) => ledger.txs[i].nonce # ledger.txs[j].nonce

\* C12: a send_tx call that returned a receipt has its transaction included with
\* success status; a call whose broadcast was rejected, whose wait timed out or
\* whose transaction was included with another status raised.
C12_ReceiptOnlyOnSuccess ==
    \A c \in DOMAIN ledger.calls :
        /\ ledger.calls[c].res = "ok" =>
              \E i \in TxsOfCall(c) : ledger.txs[i].state = "success"
        /\ (\E i \in TxsOfCall(c) : ledger.txs[i].state \in {"rejected", "reverted"})
              => ledger.calls[c].res = "raised"
        /\ ledger.calls[c].outcome = "timeout" => ledger.calls[c].res = "raised"

\* A call whose transaction reverted was followed by a call that got its receipt.
C12_Witness ==
    /\ Len(ledger.calls) >= 2
    /\ \E i \in TxsOfCall(1) : ledger.txs[i].state = "reverted"
    /\ ledger.calls[1].res = "raised"
    /\ ledger.calls[2].res = "ok"

\* C13: the transaction of a send_tx call that raised is never one that executed
\* with success: its intent has not taken effect on the ledger.
C13_ErrorMeansNoEffect ==
    \A c \in DOMAIN ledger.calls :
        ledger.calls[c].res = "raised" =>
            \A i \in TxsOfCall(c) : ledger.txs[i].state # "success"

\* C19: a process_job call holds at most one assignJobToOptimalNode submission,
\* and a send_tx call hands at most one transaction to the node.
C19_NoRetryWithinCall ==
    /\ Cardinality(Calls(callLog, "assignJobToOptimalNode")) <= 1
    /\ \A c \in DOMAIN ledger.calls : Cardinality(TxsOfCall(c)) <= 1

\* The assignment of a process_job call was rejected at broadcast and the call
\* ended there, with that one transaction.
C19_Witness ==
    /\ proc = "scheduler"
    /\ \E i \in Calls(callLog, "assignJobToOptimalNode") : callLog[i].res = "raised"
    /\ ledger.calls # <<>>
    /\ ledger.calls[Len(ledger.calls)].outcome = "rejected"
    /\ ledger.calls[Len(ledger.calls)].fn.op = "assignJobToOptimalNode"
    /\ Cardinality(TxsOfCall(Len(ledger.calls))) = 1

\* C14 as stated: neither process ever ends on an error.
C14_NoErrorIsFatal == pc # "crashed" /\ ppc # "crashed"

\* C14, amended: once a process is in its polling loop no failure takes it out of
\* the loop, and an iteration in progress always ends with the process back at the
\* top of the loop, where the next iteration starts.
C14_NoErrorIsFatalInLoop ==
    /\ [][/\ pc \in {"poll", "scan"} => pc' \in {"poll", "scan"}
          /\ ppc \in {"poll", "work"} => ppc' \in {"poll", "work"}]_vars
    /\ []<>(pc # "scan")
    /\ []<>(ppc # "work")

\* The scheduler is back at the top of its loop after a failed height read, a
\* failed escrow read and a failed submission.
C14_Witness ==
    /\ pc = "poll"
    /\ iter.kind = "height_error"
    /\ \E i \in Calls(callLog, "isFunded") : callLog[i].res = "error"
    /\ \E i \in Calls(callLog, "assignJobToOptimalNode") : callLog[i].res = "raised"

\* C15: the cursor a completed scan leaves is current + 1, current being the
\* height read when that iteration fetched its batch and not read again while the
\* batch is processed; failed steps of process_job change nothing to it, and the
\* blocks appended meanwhile are at or above the new cursor.
C15_AdvanceToHeightReadAtStart ==
    [][/\ (pc = "poll" /\ pc' = "scan") => current' = Height
       /\ (pc = "scan" /\ pc' = "scan") => current' = current
       /\ (pc = "scan" /\ pc' = "poll") =>
             /\ last_block' = current + 1
             /\ current' = current
             /\ \A b \in (current + 1)..Height : b \notin scanned' /\ b >= last_block']_vars

\* A scan has completed although its last job logged a failure, and the chain grew
\* while the batch was being processed.
C15_Witness ==
    /\ pc = "poll"
    /\ iter.kind = "done"
    /\ \E i \in DOMAIN callLog : callLog[i].res = "raised"
    /\ Height > current
    /\ last_block = current + 1

\* C16 as stated: the first cursor is the configured height whenever one is
\* configured, and the chain height at startup only when START_BLOCK is not set.
C16_StartCursorAsConfigured ==
    [][(pc = "start" /\ pc' = "poll") =>
          last_block' = IF START_BLOCK_ENV # -1 THEN START_BLOCK_ENV ELSE Height]_vars

\* Job ids of the events handed to process_job so far.
HandedJobs == {procLog[k].jobId : k \in DOMAIN procLog}

\* The latest process_job call stopped at the funding check.
StoppedUnfunded ==
    /\ callLog # <<>>
    /\ callLog[Len(callLog)].op = "isFunded"
    /\ callLog[Len(callLog)].res = "false"

\* C17: a job that was handed to process_job once, in particular one whose call
\* stopped at the funding check, is in no batch fetched afterwards, and no later
\* process_job call reads isFunded or submits a transaction for it, whatever the
\* escrow would answer then.
C17_UnfundedNeverRetried ==
    /\ [](pc = "scan" =>
             \A i \in (pos + 1)..Len(batch) : batch[i].jobId \notin HandedJobs)
    /\ [][procLog' # procLog =>
             \A i \in DOMAIN callLog' : callLog'[i].job \notin HandedJobs]_vars

\* The call for a job stopped at the funding check, the cursor moved past the
\* job's block, and a later iteration has fetched a batch with other jobs.
C17_Witness ==
    /\ StoppedUnfunded
    /\ pc = "scan"
    /\ pos = 0
    /\ batch # <<>>
    /\ procLog # <<>>
    /\ last_block > procLog[Len(procLog)].blockNumber
    /\ callLog[Len(callLog)].job = LastJob

\* What process_job does for job j when no audit is drawn.
WithoutAudit(j) ==
    {FundingStep(j, f) \o AssignStep(j, f, a) :
        f \in {"true", "false", "error"}, a \in SendTxOutcomes}

\* C18: after a failed setJobAudit submission the rest of the process_job call is
\* one of the runs the call has for that job when no audit is drawn.
C18_AuditFailureChangesNothing ==
    (/\ callLog # <<>>
     /\ callLog[1].op = "setJobAudit"
     /\ callLog[1].res = "raised")
        => Tail(callLog) \in WithoutAudit(callLog[1].job)

\* The audit submission failed, the funding check was made and the job assigned.
C18_Witness ==
    /\ Len(callLog) = 3
    /\ callLog[1].op = "setJobAudit" /\ callLog[1].res = "raised"
    /\ callLog[2].op = "isFunded" /\ callLog[2].res = "true"
    /\ callLog[3].op = "assignJobToOptimalNode" /\ callLog[3].res = "ok"

\* C20: a step of the scheduler taken at the top of the loop while the chain
\* height is below the cursor fetches no batch, hands no job to process_job,
\* submits nothing and leaves the cursor where it is.
C20_NothingBelowCursor ==
    [][(pc = "poll" /\ Height < last_block) =>
          /\ pc' = "poll"
          /\ last_block' = last_block
          /\ batch' = batch
          /\ pos' = pos
          /\ procLog' = procLog
          /\ callLog' = callLog
          /\ scanned' = scanned
          /\ iter' = iter \/ iter'.kind \in {"idle", "height_error"}]_vars

\* An iteration found the height below the cursor after jobs had been processed.
C20_Witness ==
    /\ pc = "poll"
    /\ iter.kind = "idle"
    /\ Height < last_block
    /\ current < last_block
    /\ procLog # <<>>

====
